---- MODULE Spec2Model ----
(***************************************************************************)
(* Video proxy worker: the two request handlers (proxyM3U8, proxySegment), *)
(* the HTTP client they import (fetchWithConfig, createProxyHeaders,       *)
(* createHttpErrorResponse) and the playlist rewriter                      *)
(* (processPlaylistContent).                                               *)
(*                                                                         *)
(* Text is a sequence of one-character strings, so that trim, startsWith,  *)
(* split, includes, URL resolution and encodeURIComponent are computed     *)
(* character by character.  "LF", "CR" and "TAB" stand for the control     *)
(* characters.  A missing value (null / undefined) is the value Null.      *)
(***************************************************************************)
EXTENDS Integers, Sequences, FiniteSets, TLC

\* ------------------------------------------------------------------ bounds

\* Largest number of lines of an upstream playlist body.
MaxLines == 3

\* ------------------------------------------------------------ text helpers

Null == <<"NULL">>

LF == "LF"
CR == "CR"

\* The concatenation of a sequence of texts (by halves, to keep the
\* evaluation shallow).
RECURSIVE Concat(_)
Concat(ss) ==
  IF ss = <<>> THEN <<>>
  ELSE IF Len(ss) = 1 THEN ss[1]
  ELSE LET m == Len(ss) \div 2
       IN Concat(SubSeq(ss, 1, m)) \o Concat(SubSeq(ss, m + 1, Len(ss)))

IsWhiteSpace(c) == c \in {" ", "TAB", "CR", "LF"}

RECURSIVE TrimStart(_)
TrimStart(s) ==
  IF s # <<>> /\ IsWhiteSpace(Head(s)) THEN TrimStart(Tail(s)) ELSE s

RECURSIVE TrimEnd(_)
TrimEnd(s) ==
  IF s # <<>> /\ IsWhiteSpace(s[Len(s)])
  THEN TrimEnd(SubSeq(s, 1, Len(s) - 1))
  ELSE s

\* String.prototype.trim
trim(s) == TrimEnd(TrimStart(s))

\* String.prototype.startsWith
startsWith(s, p) == Len(s) >= Len(p) /\ SubSeq(s, 1, Len(p)) = p

\* String.prototype.endsWith
endsWith(s, p) ==
  Len(s) >= Len(p) /\ SubSeq(s, Len(s) - Len(p) + 1, Len(s)) = p

\* String.prototype.includes
includes(s, p) ==
  \E k \in 1..(Len(s) - Len(p) + 1) : SubSeq(s, k, k + Len(p) - 1) = p

\* Index of the first occurrence of character c in s, 0 when there is none.
IndexOf(s, c) ==
  LET at == {k \in 1..Len(s) : s[k] = c}
  IN IF at = {} THEN 0 ELSE CHOOSE k \in at : \A j \in at : k <= j

\* s.split(sep) for a one-character separator: always at least one piece.
RECURSIVE SplitOn(_, _)
SplitOn(s, c) ==
  LET k == IndexOf(s, c)
  IN IF k = 0
     THEN <<s>>
     ELSE <<SubSeq(s, 1, k - 1)>> \o SplitOn(SubSeq(s, k + 1, Len(s)), c)

\* playlistText.split(/\r?\n/): a line ends at LF or at CR LF; a CR that no
\* LF follows stays in its line.
RECURSIVE SplitLines(_)
SplitLines(s) ==
  LET k == IndexOf(s, LF)
      e == IF k > 1 /\ s[k - 1] = CR THEN k - 2 ELSE k - 1
  IN IF k = 0
     THEN <<s>>
     ELSE <<SubSeq(s, 1, e)>> \o SplitLines(SubSeq(s, k + 1, Len(s)))

\* out.join(sep)
Join(ss, sep) ==
  Concat([k \in 1..Len(ss) |-> IF k = 1 THEN ss[k] ELSE sep \o ss[k]])

\* Decimal digits of a status code, as `${response.status}` gives them.
Digit(d) == <<"0", "1", "2", "3", "4", "5", "6", "7", "8", "9">>[d + 1]

RECURSIVE Digits(_)
Digits(n) == IF n < 10 THEN <<Digit(n)>> ELSE Append(Digits(n \div 10), Digit(n % 10))

\* ------------------------------------------- the platform's URL and encoder

Lower == {"a","b","c","d","e","f","g","h","i","j","k","l","m","n","o","p",
          "q","r","s","t","u","v","w","x","y","z"}
Upper == {"A","B","C","D","E","F","G","H","I","J","K","L","M","N","O","P",
          "Q","R","S","T","U","V","W","X","Y","Z"}
Numeric == {"0","1","2","3","4","5","6","7","8","9"}

\* encodeURIComponent leaves exactly these characters as they are.
Unreserved == Lower \cup Upper \cup Numeric \cup
              {"-", "_", ".", "!", "~", "*", "'", "(", ")"}

\* The escape of the reserved ASCII characters that occur in URLs and tags.
PercentCode(c) ==
  CASE c = " " -> <<"%","2","0">>
    [] c = "#" -> <<"%","2","3">>
    [] c = "%" -> <<"%","2","5">>
    [] c = "&" -> <<"%","2","6">>
    [] c = "+" -> <<"%","2","B">>
    [] c = "," -> <<"%","2","C">>
    [] c = "/" -> <<"%","2","F">>
    [] c = ":" -> <<"%","3","A">>
    [] c = "=" -> <<"%","3","D">>
    [] c = "?" -> <<"%","3","F">>
    [] c = "@" -> <<"%","4","0">>

encodeURIComponent(s) ==
  Concat([k \in 1..Len(s) |->
            IF s[k] \in Unreserved THEN <<s[k]>> ELSE PercentCode(s[k])])

\* The URL parser escapes a space inside a path, query or fragment.
UrlEscape(s) ==
  Concat([k \in 1..Len(s) |->
            IF s[k] = " " THEN <<"%","2","0">> ELSE <<s[k]>>])

\* The value a failed parse stands for: `new URL` throws TypeError.
InvalidURL ==
  [ok |-> FALSE, scheme |-> <<>>, host |-> <<>>, path |-> <<>>,
   query |-> Null, fragment |-> Null]

\* `new URL(input)` with no base.
NoBase == InvalidURL

\* Dot-segment removal of the URL path state: ".." drops the last segment,
\* "." drops itself, and either at the end of the path leaves an empty segment.
RECURSIVE PathState(_, _)
PathState(path, segs) ==
  IF segs = <<>> THEN path
  ELSE LET seg == Head(segs)
           last == Len(segs) = 1
           p1 == IF seg = <<".", ".">>
                 THEN (IF path = <<>> THEN path ELSE SubSeq(path, 1, Len(path) - 1))
                      \o (IF last THEN << <<>> >> ELSE <<>>)
                 ELSE IF seg = <<".">>
                 THEN path \o (IF last THEN << <<>> >> ELSE <<>>)
                 ELSE Append(path, UrlEscape(seg))
       IN PathState(p1, Tail(segs))

HostChars == Lower \cup Numeric \cup {".", "-"}

\* Authority followed by a path: the host runs to the first "/"; an empty
\* host or a forbidden host character fails the parse.
AuthorityState(scheme, s, query, fragment) ==
  LET k == IndexOf(s, "/")
      host == IF k = 0 THEN s ELSE SubSeq(s, 1, k - 1)
      rest == IF k = 0 THEN <<>> ELSE SubSeq(s, k + 1, Len(s))
  IN IF host = <<>> \/ \E j \in 1..Len(host) : host[j] \notin HostChars
     THEN InvalidURL
     ELSE [ok |-> TRUE, scheme |-> scheme, host |-> host,
           path |-> PathState(<<>>, SplitOn(rest, "/")),
           query |-> query, fragment |-> fragment]

\* A reference without a scheme, resolved against base.
RelativeState(s, query, fragment, base) ==
  IF startsWith(s, <<"/", "/">>)
  THEN AuthorityState(base.scheme, SubSeq(s, 3, Len(s)), query, fragment)
  ELSE IF startsWith(s, <<"/">>)
  THEN [base EXCEPT !.path = PathState(<<>>, SplitOn(Tail(s), "/")),
                    !.query = query, !.fragment = fragment]
  ELSE IF s = <<>>
  THEN [base EXCEPT !.query = IF query # Null THEN query ELSE base.query,
                    !.fragment = fragment]
  ELSE [base EXCEPT
          !.path = PathState(SubSeq(base.path, 1, Len(base.path) - 1),
                             SplitOn(s, "/")),
          !.query = query, !.fragment = fragment]

RECURSIVE StripSlashes(_)
StripSlashes(s) ==
  IF s # <<>> /\ Head(s) = "/" THEN StripSlashes(Tail(s)) ELSE s

SchemeOf(s) ==
  IF startsWith(s, <<"h","t","t","p","s",":">>) THEN <<"h","t","t","p","s">>
  ELSE IF startsWith(s, <<"h","t","t","p",":">>) THEN <<"h","t","t","p">>
  ELSE Null

\* `new URL(input, base)` for http(s) URLs and scheme-less references: the
\* record of the parsed URL, or InvalidURL where the constructor throws.
URL(input, base) ==
  LET s0 == trim(input)
      h == IndexOf(s0, "#")
      fragment == IF h = 0 THEN Null ELSE UrlEscape(SubSeq(s0, h + 1, Len(s0)))
      s1 == IF h = 0 THEN s0 ELSE SubSeq(s0, 1, h - 1)
      q == IndexOf(s1, "?")
      query == IF q = 0 THEN Null ELSE UrlEscape(SubSeq(s1, q + 1, Len(s1)))
      s2 == IF q = 0 THEN s1 ELSE SubSeq(s1, 1, q - 1)
      scheme == SchemeOf(s2)
      after == IF scheme = Null THEN s2 ELSE SubSeq(s2, Len(scheme) + 2, Len(s2))
  IN IF scheme # Null
     THEN IF base.ok /\ base.scheme = scheme /\ ~startsWith(after, <<"/", "/">>)
          THEN RelativeState(after, query, fragment, base)
          ELSE AuthorityState(scheme, StripSlashes(after), query, fragment)
     ELSE IF ~base.ok THEN InvalidURL
     ELSE RelativeState(s2, query, fragment, base)

PathText(path) == Concat([k \in 1..Len(path) |-> <<"/">> \o path[k]])

\* URL.prototype.origin
origin(u) == u.scheme \o <<":", "/", "/">> \o u.host

\* URL.prototype.hostname
hostname(u) == u.host

\* URL.prototype.href
href(u) ==
  origin(u) \o PathText(u.path)
  \o (IF u.query = Null THEN <<>> ELSE <<"?">> \o u.query)
  \o (IF u.fragment = Null THEN <<>> ELSE <<"#">> \o u.fragment)

\* ------------------------------------------------------------ input values

\* "undefined", what `new URL(undefined)` parses.
Undefined == <<"u","n","d","e","f","i","n","e","d">>

\* Values of the `url` query parameter: absent, empty, not a URL, a URL
\* without a host, and two playlist / segment URLs.
\*   https://cdn.example.com/live/index.m3u8
UrlLive == <<"h","t","t","p","s",":","/","/","c","d","n",".","e","x","a","m",
    "p","l","e",".","c","o","m","/","l","i","v","e","/","i","n","d","e","x",
    ".","m","3","u","8">>
\*   https://cdn.example.com/a/b/master.m3u8?x=1
UrlMaster == <<"h","t","t","p","s",":","/","/","c","d","n",".","e","x","a","m",
    "p","l","e",".","c","o","m","/","a","/","b","/","m","a","s","t","e","r",
    ".","m","3","u","8","?","x","=","1">>
UrlParams ==
  {Null, <<>>, <<"n","o","t","-","a","-","u","r","l">>, <<"h","t","t","p","s",
    ":","/","/">>, UrlLive, UrlMaster}

\* Values of the `ref` query parameter; the last is https://site.example.com
RefSite == <<"h","t","t","p","s",":","/","/","s","i","t","e",".","e","x","a",
    "m","p","l","e",".","c","o","m">>
RefParams == {Null, <<>>, <<"n","o","t","-","a","-","u","r","l">>, RefSite}

\*   #EXT-X-STREAM-INF
StreamInfTag == <<"#","E","X","T","-","X","-","S","T","R","E","A","M","-","I","N","F">>

\* The lines an upstream playlist is made of.
\*   #EXT-X-STREAM-INF:BANDWIDTH=100
LineStreamInf == <<"#","E","X","T","-","X","-","S","T","R","E","A","M","-","I",
    "N","F",":","B","A","N","D","W","I","D","T","H","=","1","0","0">>
\*   variant.m3u8
LineVariant == <<"v","a","r","i","a","n","t",".","m","3","u","8">>
\*   seg001.ts
LineSeg == <<"s","e","g","0","0","1",".","t","s">>
\*   "  #EXT-X-VERSION:3 "  (a comment with surrounding blanks)
LineComment == <<" "," ","#","E","X","T","-","X","-","V","E","R","S","I","O","N",":","3"," ">>
\*   ../hd/seg 1.ts
LineDotDot == <<".",".","/","h","d","/","s","e","g"," ","1",".","t","s">>
\*   //  (no URL: `new URL("//", base)` throws)
LineBad == <<"/","/">>
\*   https://o.example.net/v/a.ts?t=1
LineAbsolute == <<"h","t","t","p","s",":","/","/","o",".","e","x","a","m","p",
    "l","e",".","n","e","t","/","v","/","a",".","t","s","?","t","=","1">>
LineTexts ==
  {LineStreamInf, LineVariant, LineSeg, LineComment, LineDotDot, LineBad,
   LineAbsolute, <<>>, <<" ">>}

\* Upstream playlist bodies: 1..MaxLines lines, ended by LF or by CR LF.
PlaylistTexts ==
  {Join(ls, sep) :
     ls \in UNION {[1..n -> LineTexts] : n \in 1..MaxLines},
     sep \in {<<LF>>, <<CR, LF>>}}

\* What the origin does with the outbound request: answers with a status
\* line, fails at the network level, or never answers.
UpstreamStatuses == {200, 403, 404, 429, 500, 502, 503}
Upstreams ==
  {[kind |-> "response", status |-> 200, statusText |-> <<"O", "K">>]}
  \cup {[kind |-> "response", status |-> st, statusText |-> tx] :
          st \in UpstreamStatuses \ {200},
          tx \in {<<>>, <<"s","e","e"," ","H","T","T","P"," ","4","0","4">>}}
  \cup {[kind |-> "network", status |-> 0, statusText |-> <<>>],
        [kind |-> "silent", status |-> 0, statusText |-> <<>>]}

\* --------------------------------------------------------------- the state

VARIABLES
  build,         \* the module '../utils/httpClient.js' resolves to
  handler,       \* the handler the router picked for the request
  searchParams,  \* url.searchParams of the request: [url, ref]
  upstream,      \* what the origin does with an outbound request
  pc,            \* where the handler is: start, fetching, text, rewriting, done
  targetUrl,     \* m3u8Url / segmentUrl
  refUrl,        \* refUrl
  fetches,       \* the outbound fetches issued, in order
  timerArmed,    \* the setTimeout of fetchWithConfig is pending
  elapsed,       \* `timeout` ms have passed since the fetch was issued
  bodyPending,   \* the upstream body is still being delivered
  responses,     \* the responses the handler returned
  escaped,       \* an exception left the handler
  lines,         \* processPlaylistContent: lines
  i,             \* processPlaylistContent: the loop index
  out,           \* processPlaylistContent: out
  readLog        \* every read of lines[..] so far: [index, as]

vars ==
  <<build, handler, searchParams, upstream, pc, targetUrl, refUrl, fetches,
    timerArmed, elapsed, bodyPending, responses, escaped, lines, i, out,
    readLog>>

requestVars == <<build, handler, searchParams, upstream>>
rewriteVars == <<lines, i, out, readLog>>

\* ----------------------------------------------------------- urlUtils.js

\* Mutant of parseUrl: the try/catch swallows the failure of `new URL`.
parseUrl_noThrow(input) ==
  [threw |-> FALSE, url |-> URL(IF input = Null THEN Undefined ELSE input, NoBase),
   error |-> Null]

\* parseUrl: the parsed URL, or the Error it throws.
parseUrl(input) ==
  LET u == URL(IF input = Null THEN Undefined ELSE input, NoBase)
  IN [threw |-> ~u.ok, url |-> u,
      error |-> [name |-> "Error",
                 message |-> <<"I","n","v","a","l","i","d"," ","U","R","L",":"," ">> \o input]]

\* validateQueryParams: a parameter is missing when searchParams.get gives
\* null or the empty string.
RECURSIVE MissingOf(_, _)
MissingOf(params, required) ==
  IF required = <<>> THEN <<>>
  ELSE (IF params[Head(required)] \in {Null, <<>>}
        THEN <<Head(required)>> ELSE <<>>)
       \o MissingOf(params, Tail(required))

validateQueryParams(params, required) ==
  LET missing == MissingOf(params, required)
  IN [isValid |-> Len(missing) = 0, params |-> params, missing |-> missing]

createParamErrorResponse(missingParams) ==
  [status |-> 400, kind |-> "param-error", contentType |-> "application/json",
   bodyStatus |-> -1, required |-> missingParams, cors |-> FALSE, body |-> <<>>]

createUrlErrorResponse(error) ==
  [status |-> 400, kind |-> "url-error", contentType |-> "application/json",
   bodyStatus |-> -1, required |-> <<>>, cors |-> FALSE, body |-> error.message]

\* ------------------------------------------------------------- cors.js

createCorsResponse(body, kind, contentType) ==
  [status |-> 200, kind |-> kind, contentType |-> contentType,
   bodyStatus |-> -1, required |-> <<>>, cors |-> TRUE, body |-> body]

\* --------------------------------------------------------- httpClient.js

Builds == {"utils/httpClient.js", "part_000"}

\* createProxyHeaders(refUrl, targetUrl) of utils/httpClient.js: both
\* arguments go through `new URL`, which throws on what is no URL.
createProxyHeaders(ref, target) ==
  LET refUrlObj == URL(ref, NoBase)
      targetUrlObj == URL(target, NoBase)
  IN IF ~refUrlObj.ok \/ ~targetUrlObj.ok
     THEN [threw |-> TRUE, headers |-> <<>>,
           error |-> [name |-> "TypeError", message |-> <<"I","n","v","a","l","i","d"," ","U","R","L">>]]
     ELSE [threw |-> FALSE,
           headers |-> [Referer |-> ref,
                        Origin |-> origin(refUrlObj),
                        Host |-> hostname(targetUrlObj)],
           error |-> Null]

\* createProxyHeaders(refUrl) of the copy in part_000.
createProxyHeaders_part000(ref) ==
  LET refUrlObj == URL(ref, NoBase)
  IN IF ~refUrlObj.ok
     THEN [threw |-> TRUE, headers |-> <<>>,
           error |-> [name |-> "TypeError", message |-> <<"I","n","v","a","l","i","d"," ","U","R","L">>]]
     ELSE [threw |-> FALSE,
           headers |-> [Referer |-> ref,
                        Origin |-> ref,
                        Authority |-> hostname(refUrlObj)],
           error |-> Null]

\* The handlers' call `createProxyHeaders(refUrl)`: one argument, so the
\* two-parameter function gets targetUrl = undefined.
CallCreateProxyHeaders(ref) ==
  IF build = "utils/httpClient.js"
  THEN createProxyHeaders(ref, Undefined)
  ELSE createProxyHeaders_part000(ref)

\* The error fetchWithConfig throws for a status outside 200..399.
HttpError(status, statusText) ==
  [name |-> "Error",
   message |-> <<"H","T","T","P"," ">> \o Digits(status) \o <<":", " ">>
               \o statusText]

\* What the rejected fetch carries after controller.abort().
AbortError ==
  [name |-> "AbortError",
   message |-> <<"T","h","e"," ","o","p","e","r","a","t","i","o","n"," ","w","a","s"," ","a","b","o","r","t","e","d">>]

\* What the rejected fetch carries after a network failure.
NetworkError ==
  [name |-> "TypeError", message |-> <<"N","e","t","w","o","r","k"," ","c","o","n","n","e","c","t","i","o","n"," ","l","o","s","t">>]

ErrorResponse(statusCode, error, operation) ==
  [status |-> statusCode, kind |-> "http-error",
   contentType |-> "application/json", bodyStatus |-> statusCode,
   required |-> <<>>, cors |-> build = "utils/httpClient.js",
   body |-> error.message]

\* createHttpErrorResponse of utils/httpClient.js.
createHttpErrorResponse(error, operation) ==
  LET statusCode ==
        IF error.name = "AbortError" THEN 408
        ELSE IF includes(error.message, <<"H","T","T","P"," ","4","0","3">>) THEN 403
        ELSE IF includes(error.message, <<"H","T","T","P"," ","4","0","4">>) THEN 404
        ELSE IF includes(error.message, <<"H","T","T","P"," ","4","2","9">>) THEN 429
        ELSE IF includes(error.message, <<"H","T","T","P"," ","5","0","2">>)
                \/ includes(error.message, <<"H","T","T","P"," ","5","0","3">>) THEN 502
        ELSE 500
  IN ErrorResponse(statusCode, error, operation)

\* createHttpErrorResponse of the copy in part_000.
createHttpErrorResponse_part000(error, operation) ==
  ErrorResponse(IF error.name = "AbortError" THEN 408 ELSE 500, error, operation)

CallCreateHttpErrorResponse(error, operation) ==
  IF build = "utils/httpClient.js"
  THEN createHttpErrorResponse(error, operation)
  ELSE createHttpErrorResponse_part000(error, operation)

\* DEFAULT_HEADERS of the linked httpClient.js (values kept opaque).
DefaultHeaders ==
  IF build = "utils/httpClient.js"
  THEN [UserAgent |-> "Chrome/120", Accept |-> "*/*",
        AcceptLanguage |-> "en-US,en;q=0.9",
        AcceptEncoding |-> "gzip, deflate, br",
        Connection |-> "keep-alive", CacheControl |-> "no-cache"]
  ELSE [UserAgent |-> "Chrome/98"]

\* The request fetchWithConfig hands to fetch(): the caller's headers over
\* the defaults, with the abort signal of its controller.
fetchWithConfig(url, headers) ==
  [url |-> url, headers |-> headers @@ DefaultHeaders, signal |-> TRUE]

\* --------------------------------------------------- segmentHandler.js

\* response.headers.get('content-type') of a response without the header.
NoContentType == "null"

determineContentType(responseContentType, segmentUrl) ==
  IF responseContentType # NoContentType THEN responseContentType
  ELSE IF endsWith(segmentUrl, <<".", "t", "s">>) THEN "video/MP2T"
  ELSE IF endsWith(segmentUrl, <<".", "m", "4", "s">>) THEN "video/mp4"
  ELSE IF endsWith(segmentUrl, <<".", "w", "e", "b", "m">>) THEN "video/webm"
  ELSE "application/octet-stream"

\* ------------------------------------- m3u8Handler.js: the playlist rewriter

\* Mutant of BaseForRelative: relative lines resolved against the referer.
BaseForRelative_referer(m3u8Url) == refUrl

\* new URL('.', m3u8Url).href
BaseForRelative(m3u8Url) == href(URL(<<".">>, URL(m3u8Url, NoBase)))

\* new URL(reference, baseForRelative)
Resolve(reference, baseForRelative) ==
  URL(reference, URL(baseForRelative, NoBase))

\* `/player/stream?url=${encodeURIComponent(abs)}&ref=${encodeURIComponent(refUrl)}`
StreamRef(abs, ref) ==
  <<"/","p","l","a","y","e","r","/","s","t","r","e","a","m","?","u","r","l","=">> \o encodeURIComponent(abs)
  \o <<"&","r","e","f","=">> \o encodeURIComponent(ref)

\* Mutant of SegmentRef: the segment line under the playlist route.
SegmentRef_streamPath(abs, ref) == StreamRef(abs, ref)

\* `/segment?url=${encodeURIComponent(abs)}&ref=${encodeURIComponent(refUrl)}`
SegmentRef(abs, ref) ==
  <<"/","s","e","g","m","e","n","t","?","u","r","l","=">> \o encodeURIComponent(abs)
  \o <<"&","r","e","f","=">> \o encodeURIComponent(ref)

ResolveError ==
  [name |-> "TypeError", message |-> <<"I","n","v","a","l","i","d"," ","U","R","L">>]

\* Mutant of StreamInfBranch: the `continue` after the missing-URI report is
\* left out, so the empty reference is resolved and pushed.
StreamInfBranch_noContinue(ls, idx, o, base, ref) ==
  LET line == trim(ls[idx + 1])
      j == idx + 1
      next == trim(IF j < Len(ls) THEN ls[j + 1] ELSE <<>>)
      abs == Resolve(next, base)
      reads == <<[index |-> idx, as |-> "current"]>>
               \o (IF j < Len(ls)
                   THEN <<[index |-> j, as |-> "lookahead"]>> ELSE <<>>)
  IN IF ~abs.ok
     THEN [threw |-> TRUE, i |-> j, out |-> Append(o, line), reads |-> reads]
     ELSE [threw |-> FALSE, i |-> j,
           out |-> o \o <<line, StreamRef(href(abs), ref)>>, reads |-> reads]

\* Mutant of StreamInfBranch: the lookahead reads lines[i + 1] and leaves the
\* cursor on the tag line.
StreamInfBranch_peek(ls, idx, o, base, ref) ==
  LET line == trim(ls[idx + 1])
      j == idx + 1
      next == trim(IF j < Len(ls) THEN ls[j + 1] ELSE <<>>)
      abs == Resolve(next, base)
      reads == <<[index |-> idx, as |-> "current"]>>
               \o (IF j < Len(ls)
                   THEN <<[index |-> j, as |-> "lookahead"]>> ELSE <<>>)
  IN IF next = <<>>
     THEN [threw |-> FALSE, i |-> idx, out |-> Append(o, line), reads |-> reads]
     ELSE IF ~abs.ok
     THEN [threw |-> TRUE, i |-> idx, out |-> Append(o, line), reads |-> reads]
     ELSE [threw |-> FALSE, i |-> idx,
           out |-> o \o <<line, StreamRef(href(abs), ref)>>, reads |-> reads]

\* The three branches of the loop body at index idx (0-based, as in the
\* code).  Each gives the index and output the body leaves behind, before
\* the loop's own i++, the reads of lines[..] it made, and whether
\* `new URL` threw.

\* if (line.startsWith('#EXT-X-STREAM-INF')) { ... }
StreamInfBranch(ls, idx, o, base, ref) ==
  LET line == trim(ls[idx + 1])
      o1 == Append(o, line)
      j == idx + 1
      next == trim(IF j < Len(ls) THEN ls[j + 1] ELSE <<>>)
      abs == Resolve(next, base)
      reads == <<[index |-> idx, as |-> "current"]>>
               \o (IF j < Len(ls)
                   THEN <<[index |-> j, as |-> "lookahead"]>> ELSE <<>>)
  IN IF next = <<>>
     THEN [threw |-> FALSE, i |-> j, out |-> o1, reads |-> reads]
     ELSE IF ~abs.ok
     THEN [threw |-> TRUE, i |-> j, out |-> o1, reads |-> reads]
     ELSE [threw |-> FALSE, i |-> j,
           out |-> Append(o1, StreamRef(href(abs), ref)), reads |-> reads]

\* else if (line && !line.startsWith('#')) { ... }
SegmentBranch(ls, idx, o, base, ref) ==
  LET line == trim(ls[idx + 1])
      abs == Resolve(line, base)
      reads == <<[index |-> idx, as |-> "current"]>>
  IN IF ~abs.ok
     THEN [threw |-> TRUE, i |-> idx, out |-> o, reads |-> reads]
     ELSE [threw |-> FALSE, i |-> idx,
           out |-> Append(o, SegmentRef(href(abs), ref)), reads |-> reads]

\* Mutant of CommentBranch: the line is pushed as read, not trimmed.
CommentBranch_untrimmed(ls, idx, o, base, ref) ==
  [threw |-> FALSE, i |-> idx, out |-> Append(o, ls[idx + 1]),
   reads |-> <<[index |-> idx, as |-> "current"]>>]

\* else { out.push(line); }
CommentBranch(ls, idx, o, base, ref) ==
  [threw |-> FALSE, i |-> idx, out |-> Append(o, trim(ls[idx + 1])),
   reads |-> <<[index |-> idx, as |-> "current"]>>]

\* The branch the if / else-if / else chain takes for a trimmed line.
IsStreamInf(line) == startsWith(line, StreamInfTag)
IsBareUri(line) == ~IsStreamInf(line) /\ line # <<>> /\ ~startsWith(line, <<"#">>)

\* ------------------------------------------------------------ the handlers

Operation(h) ==
  IF h = "proxyM3U8" THEN "proxy M3U8 playlist" ELSE "fetch video segment"

\* `return response;` of a handler.
Respond(r) ==
  /\ responses' = Append(responses, r)
  /\ pc' = "done"
  /\ escaped' = escaped

\* Mutant of HandlerCatch: the error is thrown on instead of answered.
HandlerCatch_rethrow(err) ==
  /\ escaped' = TRUE
  /\ pc' = "done"
  /\ responses' = responses

\* `catch (err) { return createHttpErrorResponse(err, ...) }` of a handler.
HandlerCatch(err) ==
  Respond(CallCreateHttpErrorResponse(err, Operation(handler)))

Init ==
  /\ build \in Builds
  /\ handler \in {"proxyM3U8", "proxySegment"}
  /\ searchParams \in [url : UrlParams, ref : RefParams]
  /\ upstream \in Upstreams
  /\ pc = "start"
  /\ targetUrl = Null
  /\ refUrl = Null
  /\ fetches = <<>>
  /\ timerArmed = FALSE
  /\ elapsed = FALSE
  /\ bodyPending = FALSE
  /\ responses = <<>>
  /\ escaped = FALSE
  /\ lines = <<>>
  /\ i = 0
  /\ out = <<>>
  /\ readLog = <<>>

\* proxyM3U8 / proxySegment from entry to the first await: the parameter
\* check, the two parseUrl calls, createProxyHeaders and fetchWithConfig up
\* to its `await fetch(...)`.
HandlerEntry(h) ==
  /\ pc = "start"
  /\ handler = h
  /\ LET validation == validateQueryParams(searchParams, <<"url", "ref">>)
         target == parseUrl(validation.params.url)
         ref == parseUrl(validation.params.ref)
         proxyHeaders == CallCreateProxyHeaders(href(ref.url))
     IN IF ~validation.isValid
        THEN /\ Respond(createParamErrorResponse(validation.missing))
             /\ UNCHANGED <<targetUrl, refUrl, fetches, timerArmed>>
        ELSE IF target.threw
        THEN /\ Respond(createUrlErrorResponse(target.error))
             /\ UNCHANGED <<targetUrl, refUrl, fetches, timerArmed>>
        ELSE IF ref.threw
        THEN /\ Respond(createUrlErrorResponse(ref.error))
             /\ UNCHANGED <<targetUrl, refUrl, fetches, timerArmed>>
        ELSE /\ targetUrl' = href(target.url)
             /\ refUrl' = href(ref.url)
             /\ IF proxyHeaders.threw
                THEN /\ HandlerCatch(proxyHeaders.error)
                     /\ UNCHANGED <<fetches, timerArmed>>
                ELSE /\ fetches' = Append(fetches,
                           fetchWithConfig(href(target.url), proxyHeaders.headers))
                     /\ timerArmed' = TRUE
                     /\ pc' = "fetching"
                     /\ UNCHANGED <<responses, escaped>>
  /\ UNCHANGED <<requestVars, rewriteVars, elapsed, bodyPending>>

ProxyM3U8 == HandlerEntry("proxyM3U8")

ProxySegment == HandlerEntry("proxySegment")

\* fetch() resolves with the upstream's status line and headers:
\* clearTimeout, the status check, and the handler up to its next await.
\* proxyM3U8 goes on to `await response.text()`.
M3U8FetchFulfilled ==
  /\ pc = "fetching"
  /\ handler = "proxyM3U8"
  /\ upstream.kind = "response"
  /\ timerArmed' = FALSE
  /\ IF upstream.status < 200 \/ upstream.status >= 400
     THEN /\ HandlerCatch(HttpError(upstream.status, upstream.statusText))
          /\ UNCHANGED bodyPending
     ELSE /\ pc' = "text"
          /\ bodyPending' = TRUE
          /\ UNCHANGED <<responses, escaped>>
  /\ UNCHANGED <<requestVars, rewriteVars, targetUrl, refUrl, fetches, elapsed>>

\* proxySegment returns response.body as the body of its own response.
SegmentFetchFulfilled ==
  /\ pc = "fetching"
  /\ handler = "proxySegment"
  /\ upstream.kind = "response"
  /\ timerArmed' = FALSE
  /\ IF upstream.status < 200 \/ upstream.status >= 400
     THEN /\ HandlerCatch(HttpError(upstream.status, upstream.statusText))
          /\ UNCHANGED bodyPending
     ELSE /\ \E ct \in {NoContentType, "video/mp4"} :
               Respond(createCorsResponse(<<>>, "segment",
                                          determineContentType(ct, targetUrl)))
          /\ bodyPending' = TRUE
  /\ UNCHANGED <<requestVars, rewriteVars, targetUrl, refUrl, fetches, elapsed>>

\* fetch() rejects with a network failure: clearTimeout, rethrow, catch.
FetchRejected ==
  /\ pc = "fetching"
  /\ upstream.kind = "network"
  /\ timerArmed' = FALSE
  /\ HandlerCatch(NetworkError)
  /\ UNCHANGED <<requestVars, rewriteVars, targetUrl, refUrl, fetches, elapsed,
                 bodyPending>>

\* The timer of fetchWithConfig fires while the fetch is awaited:
\* controller.abort(), the fetch rejects with AbortError, rethrow, catch.
TimerFires ==
  /\ pc = "fetching"
  /\ timerArmed
  /\ timerArmed' = FALSE
  /\ elapsed' = TRUE
  /\ HandlerCatch(AbortError)
  /\ UNCHANGED <<requestVars, rewriteVars, targetUrl, refUrl, fetches,
                 bodyPending>>

\* `timeout` ms pass after clearTimeout: no callback is left to run.
DeadlinePasses ==
  /\ fetches # <<>>
  /\ ~timerArmed
  /\ ~elapsed
  /\ elapsed' = TRUE
  /\ UNCHANGED <<requestVars, rewriteVars, pc, targetUrl, refUrl, fetches,
                 timerArmed, bodyPending, responses, escaped>>

\* response.text() resolves: processPlaylistContent starts (split, i = 0).
TextFulfilled ==
  /\ pc = "text"
  /\ \E playlistText \in PlaylistTexts :
       lines' = SplitLines(playlistText)
  /\ i' = 0
  /\ out' = <<>>
  /\ readLog' = <<>>
  /\ bodyPending' = FALSE
  /\ pc' = "rewriting"
  /\ UNCHANGED <<requestVars, targetUrl, refUrl, fetches, timerArmed, elapsed,
                 responses, escaped>>

\* response.text() rejects: the upstream body broke off.
TextRejected ==
  /\ pc = "text"
  /\ bodyPending' = FALSE
  /\ HandlerCatch(NetworkError)
  /\ UNCHANGED <<requestVars, rewriteVars, targetUrl, refUrl, fetches,
                 timerArmed, elapsed>>

\* One iteration of the for loop, through the branch `Branch`; a throw of
\* `new URL` leaves processPlaylistContent and lands in the handler's catch.
LoopIteration(r) ==
  /\ readLog' = readLog \o r.reads
  /\ out' = r.out
  /\ IF r.threw
     THEN /\ i' = r.i
          /\ HandlerCatch(ResolveError)
     ELSE /\ i' = r.i + 1
          /\ UNCHANGED <<pc, responses, escaped>>
  /\ UNCHANGED <<requestVars, lines, targetUrl, refUrl, fetches, timerArmed,
                 elapsed, bodyPending>>

RewriteStreamInf ==
  /\ pc = "rewriting"
  /\ i < Len(lines)
  /\ IsStreamInf(trim(lines[i + 1]))
  /\ LoopIteration(StreamInfBranch(lines, i, out,
                                   BaseForRelative(targetUrl), refUrl))

RewriteSegment ==
  /\ pc = "rewriting"
  /\ i < Len(lines)
  /\ IsBareUri(trim(lines[i + 1]))
  /\ LoopIteration(SegmentBranch(lines, i, out,
                                 BaseForRelative(targetUrl), refUrl))

RewriteComment ==
  /\ pc = "rewriting"
  /\ i < Len(lines)
  /\ ~IsStreamInf(trim(lines[i + 1]))
  /\ ~IsBareUri(trim(lines[i + 1]))
  /\ LoopIteration(CommentBranch(lines, i, out,
                                 BaseForRelative(targetUrl), refUrl))

\* The loop ends: out.join('\n') goes out as the playlist response.
RewriteReturn ==
  /\ pc = "rewriting"
  /\ i >= Len(lines)
  /\ Respond(createCorsResponse(Join(out, <<LF>>), "playlist",
                                "application/vnd.apple.mpegurl"))
  /\ UNCHANGED <<requestVars, rewriteVars, targetUrl, refUrl, fetches,
                 timerArmed, elapsed, bodyPending>>

\* The runtime finishes piping the segment body to the client.
SegmentBodyStreamed ==
  /\ pc = "done"
  /\ bodyPending
  /\ bodyPending' = FALSE
  /\ UNCHANGED <<requestVars, rewriteVars, pc, targetUrl, refUrl, fetches,
                 timerArmed, elapsed, responses, escaped>>

Next ==
  \/ ProxyM3U8
  \/ ProxySegment
  \/ M3U8FetchFulfilled
  \/ SegmentFetchFulfilled
  \/ FetchRejected
  \/ TimerFires
  \/ DeadlinePasses
  \/ TextFulfilled
  \/ TextRejected
  \/ RewriteStreamInf
  \/ RewriteSegment
  \/ RewriteComment
  \/ RewriteReturn
  \/ SegmentBodyStreamed

Spec == Init /\ [][Next]_vars

\* ------------------------------------------------------------- properties

\* The request carries a present, non-empty, absolute `url` and `ref`.
ParamsOk ==
  /\ searchParams.url \in {UrlLive, UrlMaster}
  /\ searchParams.ref = RefSite

\*   https://site.example.com/
RefererHref == <<"h","t","t","p","s",":","/","/","s","i","t","e",".","e","x",
                 "a","m","p","l","e",".","c","o","m","/">>

\* The directory of a parsed URL: its path without the last segment, and no
\* query or fragment.
Directory(u) ==
  [u EXCEPT !.path = SubSeq(u.path, 1, Len(u.path) - 1) \o << <<>> >>,
            !.query = Null, !.fragment = Null]

\*   /player/stream?url=https%3A%2F%2Fcdn.example.com%2Flive%2Fvariant.m3u8&ref=https%3A%2F%2Fsite.example.com%2F
VariantStreamLine == <<"/","p","l","a","y","e","r","/","s","t","r","e","a","m",
                       "?","u","r","l","=","h","t","t","p","s","%","3","A","%",
                       "2","F","%","2","F","c","d","n",".","e","x","a","m","p",
                       "l","e",".","c","o","m","%","2","F","l","i","v","e","%",
                       "2","F","v","a","r","i","a","n","t",".","m","3","u","8",
                       "&","r","e","f","=","h","t","t","p","s","%","3","A","%",
                       "2","F","%","2","F","s","i","t","e",".","e","x","a","m",
                       "p","l","e",".","c","o","m","%","2","F">>

\*   /segment?url=https%3A%2F%2Fcdn.example.com%2Flive%2Fseg001.ts&ref=https%3A%2F%2Fsite.example.com%2F
SegSegmentLine == <<"/","s","e","g","m","e","n","t","?","u","r","l","=","h",
                    "t","t","p","s","%","3","A","%","2","F","%","2","F","c",
                    "d","n",".","e","x","a","m","p","l","e",".","c","o","m",
                    "%","2","F","l","i","v","e","%","2","F","s","e","g","0",
                    "0","1",".","t","s","&","r","e","f","=","h","t","t","p",
                    "s","%","3","A","%","2","F","%","2","F","s","i","t","e",
                    ".","e","x","a","m","p","l","e",".","c","o","m","%","2",
                    "F">>

\* The handler answered with the rewritten playlist.
PlaylistReturned ==
  pc = "done" /\ Len(responses) = 1 /\ responses[1].kind = "playlist"

\* The step is an iteration of the rewriter's loop.
LoopStep == pc = "rewriting" /\ i < Len(lines) /\ readLog' # readLog

\* C1: a fetch is issued only for a request whose url and ref are present,
\* non-empty and absolute URLs; a request where either is missing, empty or
\* unparsable ends at once with one 400 response and never issues a fetch.
C1_FetchOnlyAfterValidation ==
  /\ fetches # <<>> => ParamsOk
  /\ ~ParamsOk =>
       /\ pc \in {"start", "done"}
       /\ fetches = <<>>
       /\ pc = "done" => Len(responses) = 1 /\ responses[1].status = 400

\* C1 witness: a request whose url has no host was answered 400 without a
\* fetch.
C1_Witness ==
  /\ pc = "done"
  /\ searchParams.url = <<"h","t","t","p","s",":","/","/">>
  /\ searchParams.ref = RefSite
  /\ responses[1].status = 400
  /\ fetches = <<>>

C4_DanglingStreamInf ==
  [][/\ (/\ LoopStep
         /\ startsWith(trim(lines[i + 1]), StreamInfTag)
         /\ (i + 1 >= Len(lines) \/ trim(lines[i + 2]) = <<>>))
        => /\ pc' = "rewriting"
           /\ responses' = responses
           /\ out' = Append(out, trim(lines[i + 1]))
           /\ i' = i + 2
     /\ (/\ pc' = "done"
         /\ lines' = <<LineStreamInf, <<" ">>, LineSeg>>
         /\ targetUrl' = UrlLive)
        => /\ PlaylistReturned'
           /\ responses'[1].body = LineStreamInf \o <<LF>> \o SegSegmentLine
     /\ (pc' = "done" /\ lines' = <<LineSeg, LineStreamInf>> /\ targetUrl' = UrlLive)
        => /\ PlaylistReturned'
           /\ responses'[1].body = SegSegmentLine \o <<LF>> \o LineStreamInf]_vars

\* C4 witness: a tag followed by a blank line, then a segment, was rewritten.
C4_Witness ==
  /\ PlaylistReturned
  /\ lines = <<LineStreamInf, <<" ">>, LineSeg>>
  /\ targetUrl = UrlLive
  /\ out = <<LineStreamInf, SegSegmentLine>>

\* A trimmed line that is blank, or a comment other than #EXT-X-STREAM-INF.
IsPassThrough(line) ==
  line = <<>> \/ (startsWith(line, <<"#">>) /\ ~startsWith(line, StreamInfTag))

TrimmedLines == [k \in 1..Len(lines) |-> trim(lines[k])]

\* The trimmed lines read so far as the loop's current line; a line read as
\* the lookahead of a tag leaves a marker.
CurrentLines ==
  [k \in 1..Len(readLog) |->
     IF readLog[k].as = "current"
     THEN trim(lines[readLog[k].index + 1])
     ELSE <<"LOOKAHEAD">>]

\* C5 as stated: the blank and comment lines of the playlist, whatever their
\* position, are the blank and comment lines of the output, in order.
C5_PassThroughAnywhere ==
  PlaylistReturned =>
    SelectSeq(out, IsPassThrough) = SelectSeq(TrimmedLines, IsPassThrough)

\* C5 amended: the blank and comment lines that the loop classifies as its
\* current line (those not consumed as the line after a #EXT-X-STREAM-INF
\* tag) are the blank and comment lines of the output, trimmed, in order.
C5_PassThroughCurrent ==
  SelectSeq(out, IsPassThrough) = SelectSeq(CurrentLines, IsPassThrough)

\* C5 witness: a playlist with a padded comment and a blank line as current
\* lines was rewritten.
C5_Witness ==
  /\ PlaylistReturned
  /\ lines = <<LineComment, <<" ">>, LineSeg>>
  /\ SubSeq(out, 1, 2) = <<trim(LineComment), <<>> >>

\* The status the mapping of the specification gives a failed fetch.
MappedStatus(up) ==
  IF up.kind = "response" /\ up.status \in {403, 404, 429} THEN up.status
  ELSE IF up.kind = "response" /\ up.status \in {502, 503} THEN 502
  ELSE 500

\* C6: a request with valid url and ref whose upstream answers outside
\* 200..399, or fails at the network level, ends with the status the mapping
\* gives (404 for an upstream 404, ...), in the response and in its body; one
\* whose upstream never answers ends with 408.
C6_ErrorStatusMapping ==
  /\ (/\ pc = "done"
      /\ ParamsOk
      /\ ~elapsed
      /\ \/ upstream.kind = "network"
         \/ upstream.kind = "response" /\ upstream.status >= 400)
     => /\ Len(responses) = 1
        /\ responses[1].status = MappedStatus(upstream)
        /\ responses[1].bodyStatus = MappedStatus(upstream)
  /\ (pc = "done" /\ ParamsOk /\ upstream.kind = "silent")
     => /\ Len(responses) = 1
        /\ responses[1].status = 408
        /\ responses[1].bodyStatus = 408

\* C7: every request with valid url and ref gets its fetch issued, carrying
\* Referer = the full referer URL, Origin = scheme and host of the referer,
\* Host = the hostname of the URL fetched.
C7_ProxyHeaders ==
  (pc # "start" /\ ParamsOk) =>
    /\ Len(fetches) = 1
    /\ fetches[1].url = targetUrl
    /\ {"Referer", "Origin", "Host"} \subseteq DOMAIN fetches[1].headers
    /\ fetches[1].headers.Referer = RefererHref
    /\ fetches[1].headers.Origin = RefSite
    /\ fetches[1].headers.Host = <<"c","d","n",".","e","x","a","m","p","l","e",
                                   ".","c","o","m">>

\* C8: once the timeout has elapsed, nothing of the outbound operation is
\* pending any more: neither the fetch nor the delivery of the upstream
\* body; a fetch caught by the timeout ends in a 408 response.
C8_NothingPendingPastTimeout ==
  elapsed =>
    /\ pc \notin {"fetching", "text"}
    /\ ~bodyPending

\* C9: no exception leaves a handler, a request has at most one response,
\* a handler waiting for its fetch has the timer armed that ends the wait,
\* a finished one has exactly one response, and a response that is no proxied body is a JSON
\* error response with an error status.
C9_AllFailuresCaught ==
  /\ ~escaped
  /\ Len(responses) <= 1
  /\ pc = "done" <=> Len(responses) = 1
  /\ pc = "fetching" => timerArmed
  /\ \A k \in 1..Len(responses) :
       IF responses[k].kind \in {"playlist", "segment"}
       THEN responses[k].status = 200
       ELSE /\ responses[k].contentType = "application/json"
            /\ responses[k].status \in {400, 403, 404, 408, 429, 500, 502}

\* C9 witness: a playlist line that is no URL made the rewriter throw, and
\* the request ended with an error response.
C9_Witness ==
  /\ pc = "done"
  /\ lines = <<LineSeg, LineBad>>
  /\ Len(responses) = 1
  /\ responses[1].kind = "http-error"
  /\ responses[1].status = 500

\* C10: the reads of lines[..] go through the indices 0, 1, 2, ... once each
\* and in order; a line is read as lookahead only directly behind a
\* #EXT-X-STREAM-INF current line; the cursor stands behind the last line
\* read; a rewrite that returns has read every line; and after two
\* consecutive tags the following line is classified on its own.
C10_ForwardCursor ==
  /\ \A k \in 1..Len(readLog) :
       /\ readLog[k].index = k - 1
       /\ readLog[k].as = "lookahead" =>
            /\ k > 1
            /\ readLog[k - 1].as = "current"
            /\ startsWith(trim(lines[k - 1]), StreamInfTag)
  /\ Len(readLog) <= Len(lines)
  /\ pc = "rewriting" =>
       /\ i >= Len(readLog)
       /\ i <= Len(lines) + 1
       /\ i <= Len(lines) => i = Len(readLog)
  /\ PlaylistReturned => Len(readLog) = Len(lines)
  /\ (PlaylistReturned /\ targetUrl = UrlLive
      /\ lines = <<LineStreamInf, LineStreamInf, LineSeg>>)
     => /\ Len(out) = 3
        /\ out[1] = LineStreamInf
        /\ startsWith(out[2], <<"/","p","l","a","y","e","r","/","s","t","r",
                                "e","a","m","?","u","r","l","=">>)
        /\ out[3] = SegSegmentLine

\* C10 witness: two consecutive tags and a segment line were rewritten.
C10_Witness ==
  /\ PlaylistReturned
  /\ lines = <<LineStreamInf, LineStreamInf, LineSeg>>
  /\ readLog = <<[index |-> 0, as |-> "current"],
                 [index |-> 1, as |-> "lookahead"],
                 [index |-> 2, as |-> "current"]>>

====
